---------------------------- MODULE Spec2Model ----------------------------
(***************************************************************************)
(* Model of the BSK training-optimization backend.                         *)
(*                                                                         *)
(*   Spec      data_loader.py load_csv_data, statement by statement,       *)
(*             called from several request threads while the data          *)
(*             directory changes underneath it.                            *)
(*   SpecDir   data_loader.py get_data_dir over a changing file system.    *)
(*   SpecCrud  main.py list and get-by-key endpoints over the store.       *)
(*   SpecRank  main.py get_underperforming_bsks with its external scorer.  *)
(*   SpecStartup  main.py startup_event and the root endpoint.            *)
(***************************************************************************)
EXTENDS Integers, Sequences, FiniteSets, TLC

(***************************************************************************)
(* Bounds of the model.                                                    *)
(***************************************************************************)
\* load_csv_data calls issued in one behaviour
MaxCalls == 3
\* changes made to the data directory in one behaviour
MaxFsOps == 1
\* columns of the header row of every CSV file
NumCols == 2
\* rows in the relational store, all tables together, under SpecCrud
MaxDbRows == 3
\* distinct identifiers a table's rows are drawn from
MaxKey == 3
\* largest skip and largest limit of a list request
MaxWindow == 3
\* rows in the relational store, all tables together, under SpecRank
MaxRankRows == 1
\* rows the external scorer returns
MaxScored == 4
\* largest num_bsks of a ranking request
MaxNum == 3
\* GET / requests answered after a startup
MaxServed == 2

\* Python's None, as an object identity (dict objects are numbered from 1)
None == 0
\* pandas' missing value
NaN == "NaN"

\* request threads of the server (sync handlers run in a thread pool)
Threads == {"t1", "t2"}

(***************************************************************************)
(* data_loader.py: the four files and the dict keys they are stored under. *)
(***************************************************************************)
required_files == <<"service_master.csv", "bsk_master.csv", "deo_master.csv", "provision.csv">>

cache_keys == <<"services", "bsks", "deos", "provisions">>

NumFiles == Len(required_files)

FileNames == {required_files[i] : i \in 1..NumFiles}

\* A CSV body (below the header): a sequence of lines, a line a sequence of
\* cell texts.  "" is a blank cell; a line shorter than the header has no
\* cell at all for its last columns.  Which load read a collection is kept
\* with it (Frame), so one table is enough to tell two loads apart.
\* The table below has a full line, a line with a blank cell, a line with no
\* cell at all for the last column, and a blank line.
GappyTable == << <<"a", "b">>, <<"a", "">>, <<"a">>, <<"">> >>

RawTables == {GappyTable}

\* A file of the data directory: absent, present but unreadable (pd.read_csv
\* raises: undecodable bytes, no header, malformed lines), or a readable table.
Absent == [st |-> "absent", body |-> <<>>]

Corrupt == [st |-> "corrupt", body |-> <<>>]

Readable(raw) == [st |-> "ok", body |-> raw]

FileStates == {Absent, Corrupt} \cup {Readable(raw) : raw \in RawTables}

VARIABLES
    disk,       \* [FileNames -> FileStates]: DATA_DIR as it is now
    fsOps,      \* changes made to the directory so far
    cache,      \* _data_cache: None or the identity of the dict it refers to
    snaps,      \* the dict objects built so far, by identity
    loadCount,  \* loads started (entries of the try block, line 40)
    calls,      \* load_csv_data calls started
    pc,         \* [Threads -> line the thread is at]
    force,      \* [Threads -> force_reload of the thread's call]
    idx,        \* [Threads -> position in required_files of the running loop]
    dfs,        \* [Threads -> the DataFrames read so far by the call]
    gen,        \* [Threads -> number of the load the call runs]
    ret,        \* [Threads -> what the thread's last call returned]
    io          \* [Threads -> file-system accesses made by the call]

loaderVars == <<disk, fsOps, cache, snaps, loadCount, calls, pc, force, idx, dfs, gen, ret, io>>

VARIABLES
    fsDirs,     \* the candidate directories that exist now
    resolved,   \* what the last get_data_dir() call saw and returned
    previous    \* the same of the call before it

dirVars == <<fsDirs, resolved, previous>>

VARIABLES
    db,         \* the relational store: a table per entity
    req,        \* the request answered last
    resp,       \* its response
    scorerArgs  \* what that request passed to find_underperforming_bsks

apiVars == <<db, req, resp, scorerArgs>>

VARIABLES
    environ,    \* os.environ["RENDER"] of the process, or Unset
    spc,        \* the line startup_event is at; "serving" once it has returned
    is_render,  \* the local of line 56
    initCall,   \* the arguments initialize_embeddings_from_db was called with
    success,    \* the local of line 66
    raised,     \* the exception raised inside the try block, if any
    slog,       \* the records logged by startup_event, in order
    served      \* GET / requests answered since startup

startVars == <<environ, spc, is_render, initCall, success, raised, slog, served>>

vars == <<loaderVars, dirVars, apiVars, startVars>>

\* no get_data_dir() call made yet
NotResolved == [called |-> FALSE]

\* the directory resolver at rest
DirIdle == fsDirs = {} /\ resolved = NotResolved /\ previous = NotResolved

\* no request answered yet, the scorer not called
NoRequest == [op |-> "none"]

NoResponse == [status |-> 0]

NotCalled == [called |-> FALSE]

\* main.py: the four entities, by the path of their endpoints
Entities == {"bsk", "services", "deo", "provisions"}

\* the REST layer at rest, on an empty store
ApiIdle ==
    /\ db = [e \in Entities |-> <<>>]
    /\ req = NoRequest /\ resp = NoResponse /\ scorerArgs = NotCalled

\* os.getenv("RENDER") of a variable that is not set
Unset == "<unset>"

NoException == "<none>"

NoValue == "<unbound>"

\* the process before startup_event runs (line 48)
StartIdle ==
    /\ environ = Unset /\ spc = "l50" /\ is_render = FALSE
    /\ initCall = NotCalled /\ success = NoValue /\ raised = NoException
    /\ slog = <<>> /\ served = 0

(***************************************************************************)
(* pandas, as load_csv_data uses it.                                       *)
(***************************************************************************)
\* read_csv skips blank lines (skip_blank_lines=True)
IsBlankLine(line) == line = <<>> \/ line = <<"">>

\* one parsed row: a blank or missing cell becomes NaN
ParseRow(line) == [c \in 1..NumCols |-> IF c <= Len(line) /\ line[c] # "" THEN line[c] ELSE NaN]

RECURSIVE ParseLines(_)
ParseLines(lines) ==
    IF lines = <<>> THEN <<>>
    ELSE IF IsBlankLine(Head(lines)) THEN ParseLines(Tail(lines))
    ELSE <<ParseRow(Head(lines))>> \o ParseLines(Tail(lines))

\* pd.read_csv of a readable file
read_csv(raw) == ParseLines(raw)

\* DataFrame.fillna('')
fillna(rows) == [r \in 1..Len(rows) |-> [c \in DOMAIN rows[r] |-> IF rows[r][c] = NaN THEN "" ELSE rows[r][c]]]

\* A DataFrame of the model: its rows, and the load that read it.
Frame(g, rows) == [gen |-> g, rows |-> rows]

\* lines 64-67: the four frames, NaN filled
FillAll(frames) == [i \in 1..Len(frames) |-> Frame(frames[i].gen, fillna(frames[i].rows))]

\* lines 69-74: the dict literal
MakeDict(frames) == [k \in {cache_keys[i] : i \in 1..NumFiles} |->
                        frames[CHOOSE i \in 1..NumFiles : cache_keys[i] = k]]

(***************************************************************************)
(* load_csv_data, one action per statement that touches shared state.      *)
(***************************************************************************)
LoaderInit ==
    /\ disk \in [FileNames -> FileStates]
    /\ fsOps = 0
    /\ cache = None
    /\ snaps = <<>>
    /\ loadCount = 0
    /\ calls = 0
    /\ pc = [t \in Threads |-> "idle"]
    /\ force = [t \in Threads |-> FALSE]
    /\ idx = [t \in Threads |-> 0]
    /\ dfs = [t \in Threads |-> <<>>]
    /\ gen = [t \in Threads |-> 0]
    /\ ret = [t \in Threads |-> None]
    /\ io = [t \in Threads |-> 0]

\* the loader at rest: nothing on disk, no call made
LoaderIdle ==
    /\ disk = [f \in FileNames |-> Absent]
    /\ fsOps = 0 /\ cache = None /\ snaps = <<>> /\ loadCount = 0 /\ calls = 0
    /\ pc = [t \in Threads |-> "idle"]
    /\ force = [t \in Threads |-> FALSE]
    /\ idx = [t \in Threads |-> 0]
    /\ dfs = [t \in Threads |-> <<>>]
    /\ gen = [t \in Threads |-> 0]
    /\ ret = [t \in Threads |-> None]
    /\ io = [t \in Threads |-> 0]

Init == LoaderInit /\ DirIdle /\ ApiIdle /\ StartIdle

\* the dict objects still referenced once the global is c and the returned
\* values are r (CPython frees a dict when its last reference goes)
Live(heap, c, r) == [g \in {h \in DOMAIN heap : h = c \/ \E u \in Threads : r[u] = h} |-> heap[g]]

\* a request thread calls load_csv_data(force_reload=f)
Call(t, f) ==
    /\ pc[t] \in {"idle", "done"}
    /\ calls < MaxCalls
    /\ calls' = calls + 1
    /\ pc' = [pc EXCEPT ![t] = "l37"]
    /\ force' = [force EXCEPT ![t] = f]
    /\ io' = [io EXCEPT ![t] = 0]
    /\ ret' = [ret EXCEPT ![t] = None]
    /\ snaps' = Live(snaps, cache, ret')
    /\ UNCHANGED <<disk, fsOps, cache, loadCount, idx, dfs, gen, dirVars, apiVars, startVars>>

\* line 37 with the flag taken the wrong way round
CacheHitFlagInverted(t) == cache # None /\ force[t]

\* line 37: the cache test
CacheHit(t) == cache # None /\ ~force[t]

\* line 37, and on a miss lines 40-49
L37(t) ==
    /\ pc[t] = "l37"
    /\ IF CacheHit(t)
       THEN /\ pc' = [pc EXCEPT ![t] = "l38"]
            /\ UNCHANGED <<loadCount, gen, idx>>
       ELSE /\ pc' = [pc EXCEPT ![t] = "l51"]
            /\ loadCount' = loadCount + 1
            /\ gen' = [gen EXCEPT ![t] = loadCount + 1]
            /\ idx' = [idx EXCEPT ![t] = 1]
    /\ UNCHANGED <<disk, fsOps, cache, snaps, calls, force, dfs, ret, io, dirVars, apiVars, startVars>>

\* line 38: return _data_cache
L38(t) ==
    /\ pc[t] = "l38"
    /\ ret' = [ret EXCEPT ![t] = cache]
    /\ pc' = [pc EXCEPT ![t] = "done"]
    /\ UNCHANGED <<disk, fsOps, cache, snaps, loadCount, calls, force, idx, dfs, gen, io, dirVars, apiVars, startVars>>

\* lines 51-55 skipping a missing file instead of returning
L51SkipMissing(t) ==
    /\ pc[t] = "l51"
    /\ io' = [io EXCEPT ![t] = @ + 1]
    /\ IF idx[t] < NumFiles
       THEN /\ idx' = [idx EXCEPT ![t] = @ + 1]
            /\ pc' = pc
       ELSE /\ idx' = [idx EXCEPT ![t] = 1]
            /\ pc' = [pc EXCEPT ![t] = "l58"]
    /\ UNCHANGED <<disk, fsOps, cache, snaps, loadCount, calls, force, dfs, gen, ret, dirVars, apiVars, startVars>>

\* lines 51-55: one turn of the existence loop
L51(t) ==
    /\ pc[t] = "l51"
    /\ io' = [io EXCEPT ![t] = @ + 1]
    /\ IF disk[required_files[idx[t]]] = Absent
       THEN /\ ret' = [ret EXCEPT ![t] = None]
            /\ pc' = [pc EXCEPT ![t] = "done"]
            /\ idx' = [idx EXCEPT ![t] = 0]
            /\ gen' = [gen EXCEPT ![t] = 0]
       ELSE /\ IF idx[t] < NumFiles
               THEN /\ idx' = [idx EXCEPT ![t] = @ + 1]
                    /\ pc' = pc
               ELSE /\ idx' = [idx EXCEPT ![t] = 1]
                    /\ pc' = [pc EXCEPT ![t] = "l58"]
            /\ UNCHANGED <<ret, gen>>
    /\ UNCHANGED <<disk, fsOps, cache, snaps, loadCount, calls, force, dfs, dirVars, apiVars, startVars>>

\* lines 58-61 storing each frame straight into the dict the global holds
L58InPlace(t) ==
    /\ pc[t] = "l58"
    /\ io' = [io EXCEPT ![t] = @ + 1]
    /\ IF disk[required_files[idx[t]]] \in {Absent, Corrupt}
       THEN /\ pc' = [pc EXCEPT ![t] = "l81"]
            /\ UNCHANGED <<idx, dfs, snaps>>
       ELSE /\ dfs' = [dfs EXCEPT ![t] = Append(@, Frame(gen[t], read_csv(disk[required_files[idx[t]]].body)))]
            /\ snaps' = IF cache \in DOMAIN snaps
                        THEN [snaps EXCEPT ![cache][cache_keys[idx[t]]] =
                                 Frame(gen[t], fillna(read_csv(disk[required_files[idx[t]]].body)))]
                        ELSE snaps
            /\ IF idx[t] < NumFiles
               THEN /\ idx' = [idx EXCEPT ![t] = @ + 1]
                    /\ pc' = pc
               ELSE /\ idx' = [idx EXCEPT ![t] = 0]
                    /\ pc' = [pc EXCEPT ![t] = "l64"]
    /\ UNCHANGED <<disk, fsOps, cache, loadCount, calls, force, gen, ret, dirVars, apiVars, startVars>>

\* lines 58-61: one pd.read_csv; it raises on a file that is gone or unreadable
L58(t) ==
    /\ pc[t] = "l58"
    /\ io' = [io EXCEPT ![t] = @ + 1]
    /\ IF disk[required_files[idx[t]]] \in {Absent, Corrupt}
       THEN /\ pc' = [pc EXCEPT ![t] = "l81"]
            /\ UNCHANGED <<idx, dfs>>
       ELSE /\ dfs' = [dfs EXCEPT ![t] = Append(@, Frame(gen[t], read_csv(disk[required_files[idx[t]]].body)))]
            /\ IF idx[t] < NumFiles
               THEN /\ idx' = [idx EXCEPT ![t] = @ + 1]
                    /\ pc' = pc
               ELSE /\ idx' = [idx EXCEPT ![t] = 0]
                    /\ pc' = [pc EXCEPT ![t] = "l64"]
    /\ UNCHANGED <<disk, fsOps, cache, snaps, loadCount, calls, force, gen, ret, dirVars, apiVars, startVars>>

\* lines 64-74: fillna on the four local frames, then the dict literal is
\* built and the global bound to it
L64(t) ==
    /\ pc[t] = "l64"
    /\ snaps' = Live((gen[t] :> MakeDict(FillAll(dfs[t]))) @@ snaps, gen[t], ret)
    /\ cache' = gen[t]
    /\ dfs' = [dfs EXCEPT ![t] = <<>>]
    /\ pc' = [pc EXCEPT ![t] = "l79"]
    /\ UNCHANGED <<disk, fsOps, loadCount, calls, force, idx, gen, ret, io, dirVars, apiVars, startVars>>

\* line 79: return _data_cache (the global is read again)
L79(t) ==
    /\ pc[t] = "l79"
    /\ ret' = [ret EXCEPT ![t] = cache]
    /\ pc' = [pc EXCEPT ![t] = "done"]
    /\ gen' = [gen EXCEPT ![t] = 0]
    /\ UNCHANGED <<disk, fsOps, cache, snaps, loadCount, calls, force, idx, dfs, io, dirVars, apiVars, startVars>>

\* lines 81-85 dropping the cache when a load fails
L81Invalidate(t) ==
    /\ pc[t] = "l81"
    /\ ret' = [ret EXCEPT ![t] = None]
    /\ cache' = None
    /\ dfs' = [dfs EXCEPT ![t] = <<>>]
    /\ idx' = [idx EXCEPT ![t] = 0]
    /\ pc' = [pc EXCEPT ![t] = "done"]
    /\ gen' = [gen EXCEPT ![t] = 0]
    /\ UNCHANGED <<disk, fsOps, snaps, loadCount, calls, force, io, dirVars, apiVars, startVars>>

\* lines 81-85 returning the snapshot still held instead of None
L81ReturnStale(t) ==
    /\ pc[t] = "l81"
    /\ ret' = [ret EXCEPT ![t] = cache]
    /\ dfs' = [dfs EXCEPT ![t] = <<>>]
    /\ idx' = [idx EXCEPT ![t] = 0]
    /\ pc' = [pc EXCEPT ![t] = "done"]
    /\ gen' = [gen EXCEPT ![t] = 0]
    /\ UNCHANGED <<disk, fsOps, cache, snaps, loadCount, calls, force, io, dirVars, apiVars, startVars>>

\* lines 81-85: the handler of every exception raised in the try block
L81(t) ==
    /\ pc[t] = "l81"
    /\ ret' = [ret EXCEPT ![t] = None]
    /\ dfs' = [dfs EXCEPT ![t] = <<>>]
    /\ idx' = [idx EXCEPT ![t] = 0]
    /\ pc' = [pc EXCEPT ![t] = "done"]
    /\ gen' = [gen EXCEPT ![t] = 0]
    /\ UNCHANGED <<disk, fsOps, cache, snaps, loadCount, calls, force, io, dirVars, apiVars, startVars>>

(***************************************************************************)
(* The data directory changes: a deployment writes, removes or damages a   *)
(* file.                                                                   *)
(***************************************************************************)
SetFile(f, s) ==
    /\ fsOps < MaxFsOps
    /\ disk[f] # s
    /\ disk' = [disk EXCEPT ![f] = s]
    /\ fsOps' = fsOps + 1
    /\ UNCHANGED <<cache, snaps, loadCount, calls, pc, force, idx, dfs, gen, ret, io, dirVars, apiVars, startVars>>

Next ==
    \/ \E t \in Threads, f \in BOOLEAN : Call(t, f)
    \/ \E t \in Threads : L37(t)
    \/ \E t \in Threads : L38(t)
    \/ \E t \in Threads : L51(t)
    \/ \E t \in Threads : L58(t)
    \/ \E t \in Threads : L64(t)
    \/ \E t \in Threads : L79(t)
    \/ \E t \in Threads : L81(t)
    \/ \E f \in FileNames, s \in FileStates : SetFile(f, s)

Spec == Init /\ [][Next]_vars

(***************************************************************************)
(* Properties of load_csv_data.                                            *)
(***************************************************************************)
\* thread t takes a step of its call
Steps(t) == pc'[t] # pc[t] \/ idx'[t] # idx[t]

\* a dict with the four collections, all read by load g
Complete(d, g) ==
    /\ DOMAIN d = {cache_keys[i] : i \in 1..NumFiles}
    /\ \A k \in DOMAIN d : d[k].gen = g

\* C1: once the cache is Loaded, a call with force_reload=False goes from the
\* test of line 37 straight to the return of line 38: it starts no load (the
\* load counter stays), touches no file, leaves the cache and the held dict as
\* they are, and returns the very dict the cache holds.
C1_CacheHitNoReload ==
    [][\A t \in Threads :
        /\ (pc[t] = "l37" /\ Steps(t) /\ cache # None /\ ~force[t])
              => /\ pc'[t] = "l38"
                 /\ loadCount' = loadCount
                 /\ cache' = cache /\ snaps' = snaps
                 /\ io'[t] = 0
        /\ (pc[t] = "l38" /\ Steps(t))
              => /\ pc'[t] = "done"
                 /\ ret'[t] = cache /\ ret'[t] # None
                 /\ loadCount' = loadCount
                 /\ cache' = cache /\ snaps' = snaps
                 /\ io'[t] = 0]_vars

\* C1 witness: a forced reload succeeded, and a later call without force_reload
\* returned the dict it published: two calls, one load, no file touched by the
\* second.
C1_Witness ==
    \E t \in Threads, u \in Threads :
        /\ t # u
        /\ pc[u] = "done" /\ force[u] /\ ret[u] # None
        /\ pc[t] = "done" /\ ~force[t] /\ io[t] = 0
        /\ ret[t] = ret[u] /\ ret[t] = cache
        /\ calls = 2 /\ loadCount = 1

\* C2: a load that fails leaves the cache alone.  The global is rebound by
\* line 69 only, to a complete dict of the thread's own load; every step of a
\* failing call (a missing file found, a read that raises, the handler) keeps
\* the global and the dict it holds; and a call that reached line 69 does not
\* fail.
C2_FailedLoadKeepsCache ==
    [][/\ (cache' # cache) =>
             \E t \in Threads : /\ pc[t] = "l64" /\ pc'[t] = "l79"
                                /\ cache' = gen[t]
                                /\ Complete(snaps'[cache'], gen[t])
       /\ \A t \in Threads :
             (Steps(t) /\ pc[t] \in {"l51", "l58", "l81"}) =>
                 /\ cache' = cache
                 /\ cache # None => (cache \in DOMAIN snaps' /\ snaps'[cache] = snaps[cache])
       /\ \A t \in Threads :
             (Steps(t) /\ pc'[t] = "done" /\ pc[t] \in {"l51", "l81"}) => ret'[t] = None
       /\ \A t \in Threads :
             (Steps(t) /\ pc[t] = "l79") => (pc'[t] = "done" /\ ret'[t] # None)]_vars

\* C2 witness: the cache is Loaded, and a forced reload has failed after it had
\* read at least one of the four files (all four existence tests and two reads
\* or more); the cache still holds a complete dict.
C2_Witness ==
    \E t \in Threads :
        /\ pc[t] = "done" /\ force[t] /\ ret[t] = None
        /\ io[t] > NumFiles + 1
        /\ cache # None /\ cache \in DOMAIN snaps
        /\ Complete(snaps[cache], cache)

\* C3 as stated: a load that finds a required file missing returns no data
\* and yields the Empty cache state (stated for the calls of a thread while
\* no other thread has called at all).
C3_MissingFileYieldsEmpty ==
    [][\A t \in Threads :
          (/\ pc[t] = "l51" /\ Steps(t) /\ disk[required_files[idx[t]]] = Absent
           /\ \A u \in Threads \ {t} : pc[u] = "idle")
              => (ret'[t] = None /\ cache' = None)]_vars

\* C3 amended: a load that finds a required file missing returns None at once
\* (reading nothing, publishing nothing) and leaves the cache as it was: Empty
\* stays Empty, a Loaded cache keeps its complete dict.  No dict is ever
\* published with fewer than the four collections, and every dict published is
\* built from four files that were all there when tested.
C3_MissingFileAllOrNothing ==
    [][/\ \A t \in Threads :
             (pc[t] = "l51" /\ Steps(t) /\ disk[required_files[idx[t]]] = Absent)
                 => /\ pc'[t] = "done" /\ ret'[t] = None
                    /\ dfs'[t] = <<>>
                    /\ cache' = cache /\ snaps' = snaps
       /\ \A g \in DOMAIN snaps' : Complete(snaps'[g], g)
       /\ \A t \in Threads :
             (pc[t] = "l51" /\ pc'[t] = "l58") =>
                 (idx[t] = NumFiles /\ disk[required_files[NumFiles]] # Absent)]_vars

\* C3 witness: on an Empty cache a call found the third file missing (the first
\* two were there) and returned None; the cache is still Empty, no dict exists.
C3_Witness ==
    \E t \in Threads :
        /\ pc[t] = "done" /\ ret[t] = None /\ io[t] = 3
        /\ cache = None /\ snaps = <<>>
        /\ disk[required_files[1]] # Absent
        /\ disk[required_files[3]] = Absent

\* C4: every dict a reader can hold (the one the global refers to, and every
\* one a call has returned) has its four collections from one and the same
\* load; a dict, once built, is never changed; and the global is rebound in one
\* step, to a dict that did not exist before.
C4_AtomicSwap ==
    /\ [](/\ \A g \in DOMAIN snaps : Complete(snaps[g], g)
          /\ cache # None => cache \in DOMAIN snaps
          /\ \A t \in Threads : (pc[t] = "done" /\ ret[t] # None) => ret[t] \in DOMAIN snaps)
    /\ [][/\ \A g \in DOMAIN snaps : g \in DOMAIN snaps' => snaps'[g] = snaps[g]
          /\ (cache' # cache) => (cache' \notin DOMAIN snaps /\ cache' \in DOMAIN snaps')]_vars

\* C4 witness: a reader (no force_reload) holds the dict of the first load
\* while a forced reload running beside it has published the dict of a later
\* load: both dicts exist, both complete.
C4_Witness ==
    \E r \in Threads, w \in Threads :
        /\ r # w
        /\ pc[r] = "done" /\ ~force[r] /\ io[r] = 0 /\ ret[r] # None
        /\ pc[w] = "l79" /\ force[w]
        /\ cache = gen[w] /\ cache # ret[r]
        /\ {ret[r], cache} \subseteq DOMAIN snaps

\* thread t returns from its call with this step
Returns(t) == Steps(t) /\ pc'[t] = "done"

\* the call of thread t ends as a failed load with this step: a required file
\* found missing (line 55) or the handler of lines 81-85
FailedLoad(t) == Returns(t) /\ pc[t] \in {"l51", "l81"}

\* C12 as stated: a failed load_csv_data(force_reload=True) on a Loaded cache
\* returns None while the snapshot stays held, a call with force_reload=False
\* on a Loaded cache returns the snapshot, and every call returns what the
\* cache holds after it except a failed forced reload on a Loaded cache.
C12_ReturnIsCacheUnlessForced ==
    [][\A t \in Threads :
          /\ (FailedLoad(t) /\ force[t] /\ cache # None)
                => (ret'[t] = None /\ cache' = cache)
          /\ (Returns(t) /\ pc[t] = "l38") => (ret'[t] = cache /\ ret'[t] # None)
          /\ Returns(t) =>
                (ret'[t] = cache' \/ (FailedLoad(t) /\ force[t] /\ cache # None))]_vars

\* C12 amended: a failed load returns None and leaves the cache as it is, so
\* a failed forced reload on a Loaded cache returns None while the snapshot
\* stays held, and a later call with force_reload=False returns that
\* snapshot; every call returns what the cache holds after it except a failed
\* load that ends while the cache is Loaded.  That is a failed forced reload
\* or, among concurrent calls, a failed load begun on an Empty cache that
\* another call filled meanwhile; while no other thread has called, it is a
\* failed forced reload only.
C12_ReturnIsCacheUnlessFailedOnLoaded ==
    [][\A t \in Threads :
          /\ FailedLoad(t) =>
                /\ ret'[t] = None /\ cache' = cache
                /\ cache # None => (cache \in DOMAIN snaps' /\ snaps'[cache] = snaps[cache])
          /\ (Returns(t) /\ pc[t] = "l38") => (ret'[t] = cache /\ ret'[t] # None)
          /\ Returns(t) => (ret'[t] = cache' \/ (FailedLoad(t) /\ cache # None))
          /\ (FailedLoad(t) /\ cache # None /\ \A u \in Threads \ {t} : pc[u] = "idle")
                => force[t]]_vars

\* C12 witness: one thread made three calls while the other made none: its
\* first load published dict 1, its second load (a forced reload, the cache
\* being Loaded) failed and left dict 1 in the cache, and its third call,
\* without force_reload, returned dict 1 without touching a file.
C12_Witness ==
    \E t \in Threads :
        /\ \A u \in Threads \ {t} : pc[u] = "idle"
        /\ calls = 3 /\ loadCount = 2
        /\ cache = 1 /\ Complete(snaps[1], 1)
        /\ pc[t] = "done" /\ ~force[t] /\ io[t] = 0
        /\ ret[t] = 1

(***************************************************************************)
(* SpecDir: data_loader.py get_data_dir, called again and again (once per *)
(* import of the module) while directories come and go.                    *)
(***************************************************************************)
\* lines 12-17, in list order
possible_paths == <<"PROJECT_ROOT/data", "/opt/render/project/src/data", "data", "../../data">>

NumPaths == Len(possible_paths)

PathNames == {possible_paths[i] : i \in 1..NumPaths}

\* lines 24-26 falling back to the last candidate
DefaultLast == [path |-> possible_paths[NumPaths], warned |-> TRUE]

\* lines 24-26: no candidate exists: warn, return the first one
Default == [path |-> possible_paths[1], warned |-> TRUE]

\* lines 19-22: the loop, from candidate i on, over the directories in fs
RECURSIVE ScanPaths(_, _)
ScanPaths(fs, i) ==
    IF i > NumPaths THEN Default
    ELSE IF possible_paths[i] \in fs THEN [path |-> possible_paths[i], warned |-> FALSE]
    ELSE ScanPaths(fs, i + 1)

\* lines 9-26
get_data_dir(fs) == ScanPaths(fs, 1)

\* any of the candidates may exist when the program starts
DirInit ==
    /\ fsDirs \in SUBSET PathNames /\ resolved = NotResolved /\ previous = NotResolved
    /\ LoaderIdle /\ ApiIdle /\ StartIdle

\* a directory is created
Mkdir(p) ==
    /\ p \notin fsDirs
    /\ fsDirs' = fsDirs \cup {p}
    /\ UNCHANGED <<resolved, previous, loaderVars, apiVars, startVars>>

\* a directory is removed
Rmdir(p) ==
    /\ p \in fsDirs
    /\ fsDirs' = fsDirs \ {p}
    /\ UNCHANGED <<resolved, previous, loaderVars, apiVars, startVars>>

\* line 28: DATA_DIR = get_data_dir()
Resolve ==
    /\ resolved' = [called |-> TRUE, fs |-> fsDirs,
                    path |-> get_data_dir(fsDirs).path,
                    warned |-> get_data_dir(fsDirs).warned]
    /\ previous' = resolved
    /\ UNCHANGED <<fsDirs, loaderVars, apiVars, startVars>>

DirNext ==
    \/ \E p \in PathNames : Mkdir(p)
    \/ \E p \in PathNames : Rmdir(p)
    \/ Resolve

SpecDir == DirInit /\ [][DirNext]_vars

\* C9: get_data_dir returns the first candidate, in list order, that exists;
\* when none exists it returns the first candidate and logs a warning (and
\* only then); two calls that see the same directories return the same path.
C9_FirstExistingPath ==
    /\ resolved.called =>
          LET there == {i \in 1..NumPaths : possible_paths[i] \in resolved.fs}
          IN  IF there = {}
              THEN resolved.path = possible_paths[1] /\ resolved.warned
              ELSE /\ \E i \in there : /\ resolved.path = possible_paths[i]
                                       /\ \A j \in there : i <= j
                   /\ ~resolved.warned
    /\ (resolved.called /\ previous.called /\ resolved.fs = previous.fs)
          => resolved.path = previous.path

\* C9 witness: both cases have happened: the last call found the first and
\* second candidates missing and returned the third; the call before it found
\* no candidate at all and returned the first, with a warning.
C9_Witness ==
    /\ resolved.called /\ previous.called
    /\ resolved.fs = {possible_paths[3], possible_paths[4]}
    /\ resolved.path = possible_paths[3] /\ ~resolved.warned
    /\ previous.fs = {}
    /\ previous.path = possible_paths[1] /\ previous.warned

(***************************************************************************)
(* SpecCrud: main.py's list and get-by-key endpoints over the relational   *)
(* store.  A row is its identifier (bsk_code, service_id, agent_id or      *)
(* customer_id: the primary key of its table) and the rest of its columns; *)
(* a table is the sequence of rows in the order the store returns them.    *)
(***************************************************************************)
KeyNames == <<"k1", "k2", "k3", "k4", "k5", "k6">>

Keys == {KeyNames[i] : i \in 1..MaxKey}

\* SQL NULL, Python None in a row
NULL == "NULL"

Row(k, v) == [id |-> k, val |-> v]

\* limit: int = Query(None): the parameter left out
NoLimit == -1

Limits == {NoLimit} \cup 0..MaxWindow

TotalRows(d) == Len(d["bsk"]) + Len(d["services"]) + Len(d["deo"]) + Len(d["provisions"])

\* another program inserts a row, between two requests (main.py only reads)
InsertRow(e, k, v) ==
    /\ req = NoRequest
    /\ db' = [db EXCEPT ![e] = Append(@, Row(k, v))]
    /\ UNCHANGED <<req, resp, scorerArgs, loaderVars, dirVars, startVars>>

\* the response is sent and the handler's frame is gone
Reply ==
    /\ req # NoRequest
    /\ req' = NoRequest /\ resp' = NoResponse /\ scorerArgs' = NotCalled
    /\ UNCHANGED <<db, loaderVars, dirVars, startVars>>

\* Query.offset(n)
RECURSIVE offset(_, _)
offset(rows, n) ==
    IF n = 0 \/ rows = <<>> THEN rows ELSE offset(Tail(rows), n - 1)

\* Query.limit(n)
RECURSIVE limit(_, _)
limit(rows, n) ==
    IF n = 0 \/ rows = <<>> THEN <<>> ELSE <<Head(rows)>> \o limit(Tail(rows), n - 1)

\* the query with the limit applied before the offset
ListQueryLimitFirst(rows, skip, lim) ==
    IF lim # NoLimit THEN offset(limit(rows, lim), skip) ELSE offset(rows, skip)

\* lines 116-119 (and 136-139, 156-159, 176-179): offset, then limit when
\* one is given, then all()
ListQuery(rows, skip, lim) ==
    IF lim # NoLimit THEN limit(offset(rows, skip), lim) ELSE offset(rows, skip)

\* GET /bsk/, /services/, /deo/, /provisions/
ListEntity(e, skip, lim) ==
    /\ req = NoRequest
    /\ req' = [op |-> "list", entity |-> e, skip |-> skip, limit |-> lim]
    /\ resp' = [status |-> 200, body |-> ListQuery(db[e], skip, lim), detail |-> ""]
    /\ UNCHANGED <<db, scorerArgs, loaderVars, dirVars, startVars>>

\* Query.filter(column == key)
RECURSIVE filter(_, _)
filter(rows, k) ==
    IF rows = <<>> THEN <<>>
    ELSE IF Head(rows).id = k THEN <<Head(rows)>> \o filter(Tail(rows), k)
    ELSE filter(Tail(rows), k)

\* Query.first(): the first row, None (here the empty sequence) without one
first(rows) == IF rows = <<>> THEN <<>> ELSE <<Head(rows)>>

\* the detail of the 404 of each get-by-key endpoint
NotFoundDetail(e) ==
    CASE e = "bsk" -> "BSK not found"
      [] e = "services" -> "Service not found"
      [] e = "deo" -> "DEO not found"
      [] e = "provisions" -> "Provision not found"

\* a miss answered with an empty success
GetResponseNullOnMiss(e, found) ==
    [status |-> 200, body |-> found, detail |-> ""]

\* lines 127-130 (and 147-150, 167-170, 187-190)
GetResponse(e, found) ==
    IF found = <<>>
    THEN [status |-> 404, body |-> <<>>, detail |-> NotFoundDetail(e)]
    ELSE [status |-> 200, body |-> found, detail |-> ""]

\* GET /bsk/{bsk_code}, /services/{service_id}, /deo/{agent_id},
\* /provisions/{customer_id}
GetEntity(e, k) ==
    /\ req = NoRequest
    /\ req' = [op |-> "get", entity |-> e, key |-> k]
    /\ resp' = GetResponse(e, first(filter(db[e], k)))
    /\ UNCHANGED <<db, scorerArgs, loaderVars, dirVars, startVars>>

\* the store starts empty and is filled row by row, identifiers repeated or not
StoreGrows(e, k) == TotalRows(db) < MaxDbRows /\ InsertRow(e, k, "v")

CrudInit == ApiIdle /\ LoaderIdle /\ DirIdle /\ StartIdle

CrudNext ==
    \/ \E e \in Entities, k \in Keys : StoreGrows(e, k)
    \/ Reply
    \/ \E e \in Entities, s \in 0..MaxWindow, l \in Limits : ListEntity(e, s, l)
    \/ \E e \in Entities, k \in Keys : GetEntity(e, k)

SpecCrud == CrudInit /\ [][CrudNext]_vars

Min(a, b) == IF a <= b THEN a ELSE b

Max(a, b) == IF a >= b THEN a ELSE b

\* C7: list(skip=s, limit=l) of any of the four entities answers 200 with the
\* window of the stored table that starts after its first s rows: row i of
\* the answer is row s+i of the table, and there are min(l, max(0, n-s)) rows
\* of the n stored, or max(0, n-s) when the limit is left out.
C7_ListWindow ==
    req.op = "list" =>
        LET n == Len(db[req.entity])
            rest == Max(0, n - req.skip)
        IN  /\ resp.status = 200
            /\ Len(resp.body) = IF req.limit = NoLimit THEN rest ELSE Min(req.limit, rest)
            /\ \A i \in 1..Len(resp.body) : resp.body[i] = db[req.entity][req.skip + i]

\* C7 witness: a list request with skip 1 and limit 1 on the three stored
\* provisions was answered with the second of them alone.
C7_Witness ==
    /\ req.op = "list" /\ req.entity = "provisions"
    /\ req.skip = 1 /\ req.limit = 1
    /\ Len(db["provisions"]) = 3
    /\ resp.body = <<db["provisions"][2]>>

\* C8: get-by-key of any of the four entities answers 200 with one stored row
\* whose identifier is the key when there is one (the first such row, which
\* is the only one wherever identifiers are unique), and 404 with the
\* endpoint's detail and no row when there is none (an empty table included);
\* a list request is never answered 404, an empty table lists as 200 and [].
C8_GetByKey ==
    /\ req.op = "get" =>
          LET hits == {i \in 1..Len(db[req.entity]) : db[req.entity][i].id = req.key}
          IN  IF hits = {}
              THEN resp.status = 404 /\ resp.body = <<>> /\ resp.detail = NotFoundDetail(req.entity)
              ELSE /\ resp.status = 200
                   /\ Len(resp.body) = 1
                   /\ resp.body[1].id = req.key
                   /\ \E i \in hits : /\ resp.body[1] = db[req.entity][i]
                                       /\ \A j \in hits : i <= j
    /\ req.op = "list" => resp.status = 200

\* C8 witness: the key of the second of two stored rows (identifiers unique)
\* was asked for, and that row came back.
C8_Witness ==
    /\ req.op = "get" /\ resp.status = 200
    /\ Len(db[req.entity]) = 2
    /\ db[req.entity][1].id # req.key
    /\ db[req.entity][2].id = req.key
    /\ resp.body = <<db[req.entity][2]>>

\* the miss has happened too: 404 on an empty table
C8_WitnessMiss ==
    /\ req.op = "get" /\ resp.status = 404
    /\ db[req.entity] = <<>>

(***************************************************************************)
(* SpecRank: main.py get_underperforming_bsks.  The scorer                 *)
(* (ai_service.bsk_analytics.find_underperforming_bsks) is outside the     *)
(* repository: what it returns, and whether it raises, is chosen freely.   *)
(***************************************************************************)
\* b.__dict__ of an ORM object: its columns and SQLAlchemy's own attribute
orm_dict(row) == [id |-> row.id, val |-> row.val, _sa_instance_state |-> "InstanceState"]

\* pd.DataFrame(list of dicts): the columns are the keys met; none for no row
DataFrame(dicts) ==
    [columns |-> UNION {DOMAIN dicts[i] : i \in 1..Len(dicts)}, rows |-> dicts]

\* df.drop(col, axis=1, inplace=True)
drop(df, col) ==
    [columns |-> df.columns \ {col},
     rows |-> [i \in 1..Len(df.rows) |-> [c \in (DOMAIN df.rows[i]) \ {col} |-> df.rows[i][c]]]]

\* lines 208-216 for one table
ToFrame(rows) ==
    LET df == DataFrame([i \in 1..Len(rows) |-> orm_dict(rows[i])])
    IN  IF "_sa_instance_state" \in df.columns THEN drop(df, "_sa_instance_state") ELSE df

\* lines 202-216: the four frames handed to the scorer
ScorerFrames == [e \in Entities |-> ToFrame(db[e])]

\* the scores of the spec's example
Scores == {1, 5, 9}

\* what the scorer may return: a frame of rows, each a center (named by its
\* place in the scorer's order) and its score
ScoreLists == UNION {[1..n -> Scores] : n \in 0..MaxScored}

ScoredRows(scores) == [i \in 1..Len(scores) |-> [bsk |-> i, score |-> scores[i]]]

\* where the handler can fail, and the message of the exception raised there
Faults == {"import", "query_bsk", "query_provisions", "query_deo", "query_services",
           "scorer", "no_score_column", "not_a_frame"}

Message(fault) ==
    CASE fault = "import" -> "No module named 'ai_service'"
      [] fault = "query_bsk" -> "query failed: bsk"
      [] fault = "query_provisions" -> "query failed: provisions"
      [] fault = "query_deo" -> "query failed: deo"
      [] fault = "query_services" -> "query failed: services"
      [] fault = "scorer" -> "scorer failed"
      [] fault = "no_score_column" -> "'score'"
      [] fault = "not_a_frame" -> "'NoneType' object has no attribute 'sort_values'"

\* the scorer is reached unless the import or a query raised before it
ReachesScorer(fault) == fault \in {"scorer", "no_score_column", "not_a_frame"}

\* the rows of S that may come first: a least score ascending, a greatest
\* descending
Firsts(S, ascending) ==
    {r \in S : \A q \in S : IF ascending THEN r.score <= q.score ELSE r.score >= q.score}

\* DataFrame.sort_values(by="score", ascending=...) with the default
\* kind='quicksort', which is not a stable sort: every order of the rows that
\* is sorted by score is a possible result
RECURSIVE Orders(_, _)
Orders(S, ascending) ==
    IF S = {} THEN {<<>>}
    ELSE UNION {{<<r>> \o t : t \in Orders(S \ {r}, ascending)} : r \in Firsts(S, ascending)}

sort_values(rows, ascending) == Orders({rows[i] : i \in 1..Len(rows)}, ascending)

\* DataFrame.head(n): the first n rows; all but the last |n| for a negative n
head(rows, n) ==
    IF n >= 0 THEN SubSeq(rows, 1, IF n <= Len(rows) THEN n ELSE Len(rows))
    ELSE SubSeq(rows, 1, IF Len(rows) + n >= 0 THEN Len(rows) + n ELSE 0)

\* the handler answering a failure with an empty list
RankOnExceptionEmptyList(message) == [status |-> 200, body |-> <<>>, detail |-> ""]

\* lines 227-229: except Exception as e: HTTPException(500, detail=str(e))
RankOnException(message) == [status |-> 500, body |-> <<>>, detail |-> message]

\* GET /underperforming_bsks/ when something raises inside the try block
UnderperformingFails(num, order, fault) ==
    /\ req = NoRequest
    /\ req' = [op |-> "rank", num_bsks |-> num, sort_order |-> order, fault |-> fault, scored |-> <<>>]
    /\ scorerArgs' = IF ReachesScorer(fault) THEN [called |-> TRUE, frames |-> ScorerFrames]
                     ELSE NotCalled
    /\ resp' = RankOnException(Message(fault))
    /\ UNCHANGED <<db, loaderVars, dirVars, startVars>>

\* GET /underperforming_bsks/ when nothing raises: lines 199-226
Underperforming(num, order, scores) ==
    /\ req = NoRequest
    /\ req' = [op |-> "rank", num_bsks |-> num, sort_order |-> order, fault |-> "none",
               scored |-> ScoredRows(scores)]
    /\ scorerArgs' = [called |-> TRUE, frames |-> ScorerFrames]
    /\ \E sorted \in sort_values(ScoredRows(scores), order = "asc") :
          resp' = [status |-> 200, body |-> head(sorted, num), detail |-> ""]
    /\ UNCHANGED <<db, loaderVars, dirVars, startVars>>

SortOrders == {"asc", "desc", "down"}

\* the store is filled with rows whose other columns are set, or NULL
StoreGrowsNullable(e, v) ==
    TotalRows(db) < MaxRankRows /\ InsertRow(e, KeyNames[Len(db[e]) + 1], v)

RankInit == ApiIdle /\ LoaderIdle /\ DirIdle /\ StartIdle

RankNext ==
    \/ \E e \in Entities, v \in {"v", NULL} : StoreGrowsNullable(e, v)
    \/ Reply
    \/ \E n \in -1..MaxNum, o \in SortOrders, f \in Faults : UnderperformingFails(n, o, f)
    \/ \E n \in -1..MaxNum, o \in SortOrders, sc \in ScoreLists : Underperforming(n, o, sc)

SpecRank == RankInit /\ [][RankNext]_vars

\* rows in the order a stable sort by score gives
RECURSIVE StableInsert(_, _, _)
StableInsert(sorted, r, ascending) ==
    IF sorted = <<>> THEN <<r>>
    ELSE IF (IF ascending THEN r.score < Head(sorted).score ELSE r.score > Head(sorted).score)
         THEN <<r>> \o sorted
         ELSE <<Head(sorted)>> \o StableInsert(Tail(sorted), r, ascending)

RECURSIVE StableSort(_, _)
StableSort(rows, ascending) ==
    IF rows = <<>> THEN <<>>
    ELSE StableInsert(StableSort(SubSeq(rows, 1, Len(rows) - 1), ascending),
                      rows[Len(rows)], ascending)

\* C5: the ranking endpoint answers with the scorer's rows sorted by score
\* (ascending for sort_order 'asc', descending for 'desc'), rows of equal
\* score in the order the scorer returned them, cut to at most num_bsks rows.
C5_StableRanking ==
    (req.op = "rank" /\ resp.status = 200 /\ req.num_bsks >= 0 /\ req.sort_order \in {"asc", "desc"})
        => resp.body = SubSeq(StableSort(req.scored, req.sort_order = "asc"), 1,
                              Min(req.num_bsks, Len(req.scored)))

\* what holds of the ranking: sorted by score and cut, ties in any order
C5_SortedAndCut ==
    (req.op = "rank" /\ resp.status = 200 /\ req.num_bsks >= 0)
        => /\ Len(resp.body) = Min(req.num_bsks, Len(req.scored))
           /\ \A i \in 1..Len(resp.body) : \E j \in 1..Len(req.scored) : resp.body[i] = req.scored[j]
           /\ \A i \in 1..Len(resp.body), j \in 1..Len(resp.body) :
                 i < j => IF req.sort_order = "asc"
                          THEN resp.body[i].score <= resp.body[j].score
                          ELSE resp.body[i].score >= resp.body[j].score
           /\ \A i \in 1..Len(resp.body), j \in 1..Len(req.scored) :
                 (\A k \in 1..Len(resp.body) : resp.body[k] # req.scored[j])
                     => IF req.sort_order = "asc"
                        THEN resp.body[i].score <= req.scored[j].score
                        ELSE resp.body[i].score >= req.scored[j].score

\* C6: whatever raises inside the ranking endpoint (the import of the scorer,
\* one of the four queries, the scorer itself, the sort of a result without a
\* score column or of something that is no frame), the answer is a 500 whose
\* detail is the message of the exception, with no rows; a 200 is given only
\* when nothing raised.
C6_FailureIs500 ==
    req.op = "rank" =>
        /\ resp.status \in {200, 500}
        /\ req.fault # "none" =>
              (resp.status = 500 /\ resp.detail = Message(req.fault) /\ resp.body = <<>>)
        /\ resp.status = 200 => req.fault = "none"

\* C6 witness: the scorer was called with the four frames and raised; the
\* answer is a 500 with its message.
C6_Witness ==
    /\ req.op = "rank" /\ req.fault = "scorer"
    /\ scorerArgs.called
    /\ resp.status = 500 /\ resp.detail = "scorer failed"

\* every cell of every collection of every dict load_csv_data has published
\* is filled
SnapshotsFilled ==
    \A g \in DOMAIN snaps : \A k \in DOMAIN snaps[g] :
        \A r \in 1..Len(snaps[g][k].rows) : \A c \in DOMAIN snaps[g][k].rows[r] :
            snaps[g][k].rows[r][c] # NaN

\* every cell of every frame handed to the scorer is filled
ScorerFramesFilled ==
    scorerArgs.called =>
        \A e \in Entities : \A r \in 1..Len(scorerArgs.frames[e].rows) :
            \A c \in DOMAIN scorerArgs.frames[e].rows[r] :
                scorerArgs.frames[e].rows[r][c] \notin {NULL, NaN}

\* C10: no null reaches a consumer: every record of the four collections of a
\* published snapshot, and of the four collections passed to the external
\* scorer, has every column filled.
C10_NoNullReachesConsumers == SnapshotsFilled /\ ScorerFramesFilled

(***************************************************************************)
(* SpecStartup: main.py startup_event, statement by statement, and the     *)
(* root endpoint the process answers once startup has returned.  The       *)
(* module ai_service.service_recommendation is outside the repository:     *)
(* whether its import raises, and what initialize_embeddings_from_db       *)
(* returns or raises, is chosen freely.                                    *)
(***************************************************************************)
\* what os.environ may hold for RENDER
EnvValues == {Unset, "true", "false"}

\* exception classes that derive from Exception
Exceptions == {"ModuleNotFoundError", "OperationalError", "MemoryError"}

\* exception classes that derive from BaseException only
BaseOnly == {"KeyboardInterrupt", "SystemExit"}

\* what line 61 may do: bind the name, or raise
ImportOutcomes == {"ok", "ModuleNotFoundError", "KeyboardInterrupt"}

\* what initialize_embeddings_from_db may return
ReturnValues == {"True", "False", "None"}

\* what the call of lines 66-69 may do: return a value, or raise
CallOutcomes == ReturnValues \cup {"OperationalError", "MemoryError", "SystemExit"}

\* the truth value of line 71
Truthy(v) == v = "True"

Record(level, message) == [level |-> level, message |-> message]

StartInit ==
    /\ environ \in EnvValues
    /\ spc = "l50" /\ is_render = FALSE
    /\ initCall = NotCalled /\ success = NoValue /\ raised = NoException
    /\ slog = <<>> /\ served = 0
    /\ LoaderIdle /\ DirIdle /\ ApiIdle

\* lines 50-53
S50 ==
    /\ spc = "l50"
    /\ slog' = Append(slog, Record("info", "Starting BSK Training Optimization API..."))
    /\ spc' = "l56"
    /\ UNCHANGED <<environ, is_render, initCall, success, raised, served, loaderVars, dirVars, apiVars>>

\* lines 56-57
S56 ==
    /\ spc = "l56"
    /\ is_render' = (environ = "true")
    /\ slog' = Append(slog, Record("info", IF environ = "true" THEN "Environment: Render"
                                                              ELSE "Environment: Local"))
    /\ spc' = "l61"
    /\ UNCHANGED <<environ, initCall, success, raised, served, loaderVars, dirVars, apiVars>>

\* lines 60-62: the import inside the try block
S61(outcome) ==
    /\ spc = "l61"
    /\ IF outcome = "ok"
       THEN /\ slog' = Append(slog, Record("info", "Initializing service embeddings from database..."))
            /\ spc' = "l66"
            /\ UNCHANGED raised
       ELSE /\ raised' = outcome
            /\ spc' = "l75"
            /\ UNCHANGED slog
    /\ UNCHANGED <<environ, is_render, initCall, success, served, loaderVars, dirVars, apiVars>>

\* lines 65-69: the call
S66(outcome) ==
    /\ spc = "l66"
    /\ initCall' = [called |-> TRUE, force_rebuild |-> is_render, include_inactive |-> FALSE]
    /\ IF outcome \in ReturnValues
       THEN /\ success' = outcome
            /\ spc' = "l71"
            /\ UNCHANGED raised
       ELSE /\ raised' = outcome
            /\ spc' = "l75"
            /\ UNCHANGED success
    /\ UNCHANGED <<environ, is_render, slog, served, loaderVars, dirVars, apiVars>>

\* lines 71-74
S71 ==
    /\ spc = "l71"
    /\ slog' = Append(slog, IF Truthy(success)
                            THEN Record("info", "Service embeddings initialized successfully")
                            ELSE Record("warning", "Embeddings initialization returned False"))
    /\ spc' = "l80"
    /\ UNCHANGED <<environ, is_render, initCall, success, raised, served, loaderVars, dirVars, apiVars>>

\* a handler for the failed import alone
CaughtImportErrorOnly(e) == e = "ModuleNotFoundError"

\* line 75: except Exception
Caught(e) == e \in Exceptions

\* lines 75-78: the handler; an exception it does not match leaves
\* startup_event, and the server gives up its startup
S75 ==
    /\ spc = "l75"
    /\ IF Caught(raised)
       THEN /\ slog' = slog \o << Record("error", raised),
                                  Record("warning", "Continuing without pre-computed embeddings"),
                                  Record("warning", "Recommendations will compute embeddings on-demand (slower)") >>
            /\ spc' = "l80"
       ELSE /\ spc' = "aborted"
            /\ UNCHANGED slog
    /\ UNCHANGED <<environ, is_render, initCall, success, raised, served, loaderVars, dirVars, apiVars>>

\* line 80, and the return: the server starts to answer requests
S80 ==
    /\ spc = "l80"
    /\ slog' = Append(slog, Record("info", "Application startup complete"))
    /\ spc' = "serving"
    /\ UNCHANGED <<environ, is_render, initCall, success, raised, served, loaderVars, dirVars, apiVars>>

\* lines 82-90: GET / answered by the running process
read_root ==
    /\ spc = "serving"
    /\ served < MaxServed
    /\ served' = served + 1
    /\ req' = [op |-> "root"]
    /\ resp' = [status |-> 200, body |-> <<"online">>, detail |-> ""]
    /\ UNCHANGED <<environ, spc, is_render, initCall, success, raised, slog, db, scorerArgs,
                   loaderVars, dirVars>>

\* the steps of startup_event
StartupStep ==
    \/ S50
    \/ S56
    \/ \E o \in ImportOutcomes : S61(o)
    \/ \E o \in CallOutcomes : S66(o)
    \/ S71
    \/ S75
    \/ S80

StartNext == StartupStep \/ read_root

\* startup_event awaits nothing: once the event loop has entered it, it runs
\* on to its return or to the exception that leaves it
SpecStartup == StartInit /\ [][StartNext]_vars /\ WF_vars(StartupStep)

\* the pre-warming step has failed: the import or the call raised an
\* exception, or the call returned a false value
PrewarmFailed == raised \in Exceptions \/ success \in {"False", "None"}

Logged(level, message) == \E i \in 1..Len(slog) : slog[i] = Record(level, message)

\* C11: a failure of the pre-warming step (the import raises, the call
\* raises, the call returns False) is logged and never aborts startup: once it
\* has failed, startup_event goes on to log "Application startup complete" and
\* to return, after which the process serves; it is left by an exception only
\* for a KeyboardInterrupt or SystemExit, which are no failures of the step.
C11_StartupSurvivesFailure ==
    /\ [](spc = "aborted" => (raised \in BaseOnly /\ ~PrewarmFailed))
    /\ []((spc \in {"l80", "serving"} /\ raised \in Exceptions) =>
             /\ Logged("error", raised)
             /\ Logged("warning", "Recommendations will compute embeddings on-demand (slower)"))
    /\ []((spc \in {"l80", "serving"} /\ success \in {"False", "None"}) =>
             Logged("warning", "Embeddings initialization returned False"))
    /\ [](spc = "serving" =>
             slog[Len(slog)] = Record("info", "Application startup complete"))
    /\ [](PrewarmFailed => <>(spc = "serving"))

\* C11 witness: the call of initialize_embeddings_from_db raised, the error
\* was logged, startup completed, and the process has answered a request.
C11_Witness ==
    /\ spc = "serving" /\ served >= 1
    /\ initCall.called
    /\ raised = "OperationalError"
    /\ Logged("error", "OperationalError")
    /\ resp.status = 200

\* the other failures have completed a startup too: the import that raised,
\* the call that returned False
C11_WitnessImport == spc = "serving" /\ raised = "ModuleNotFoundError" /\ ~initCall.called

C11_WitnessFalse == spc = "serving" /\ success = "False" /\ raised = NoException

=============================================================================
